---- MODULE Spec2Model ----
(***************************************************************************)
(* Model of src/components/editing/EquationEditorModal.tsx: the equation   *)
(* editor keeps a LaTeX-like markup (latex), a name -> color mapping       *)
(* (colorMap) and a list of colored terms (terms) for one open equation.   *)
(*                                                                         *)
(* A markup string is a sequence of tokens.  Every token is one character  *)
(* of the string, except the atomic multi-character tokens CLR ("\clr{"),  *)
(* TEXTCOLOR ("\textcolor{"), "text", "term" and the color tokens         *)
(* ("#ef4444", ...).  The single characters the multi-character tokens are *)
(* made of (backslash, c, l, r, t, e, m, ...) are not in the alphabet, so  *)
(* a literal "\clr{" of the string starts exactly where a CLR token is.    *)
(***************************************************************************)
EXTENDS Integers, Sequences, FiniteSets, TLC

VARIABLES
    \* ---- the component's state (useState / useRef) ----
    latex,          \* useState('')            line 101
    colorMap,       \* useState({})            line 102
    terms,          \* useState([])            line 103
    activeTab,      \* useState('latex')       line 105
    textareaRef,    \* useRef: "node" while the textarea is mounted, else "null"
    error,          \* useState(null)          line 104
    editingEquation,\* useEditing(): whether an equation is being edited (its
                    \* latex and colorMap are read by the init effect only)  line 99
    preview,        \* what the preview element shows (the string rendered)
    pendingEffect,  \* TRUE while the render-preview effect is due to run
    crashed,        \* TRUE once a state updater has thrown during an update
    committed,      \* what saveEquationEdit was called with, else None
    lastOp,         \* history: the last operation that ran in the session
    rendered,       \* history: how the render-preview effect last ended
    pristineNames,  \* history: the equation was opened with pairwise distinct
                    \* annotation names and no raw edit was made since
    \* ---- one call of a pure function (specification FnSpec) ----
    segs,           \* how the input markup was put together
    fnColors,       \* the colorMap argument
    fnOp,           \* which function was applied ("none" before the call)
    fnName,         \* the termName argument
    fnContent,      \* the newContent argument
    fnRange,        \* <<start, end>> of the selection, 0-based, end exclusive
    fnOut,          \* the returned markup / render string
    fnOut2,         \* the result of applying removeTerm once more
    fnTerms,        \* the returned term list
    fnThrew         \* TRUE when the call raised

vars == <<latex, colorMap, terms, activeTab, textareaRef, error,
          editingEquation, preview, pendingEffect, crashed, committed, lastOp,
          rendered, pristineNames,
          segs, fnColors, fnOp, fnName, fnContent, fnRange, fnOut, fnOut2,
          fnTerms, fnThrew>>

sessionVars == <<latex, colorMap, terms, activeTab, textareaRef, error,
                 editingEquation, preview, pendingEffect, crashed, committed,
                 lastOp, rendered, pristineNames>>
fnVars == <<segs, fnColors, fnOp, fnName, fnContent, fnRange, fnOut, fnOut2,
            fnTerms, fnThrew>>

-----------------------------------------------------------------------------
(* Tokens *)

CLR == "\\clr{"
TEXTCOLOR == "\\textcolor{"

\* line 209: the text wrapped when the selection is empty
DEFAULT_TEXT == "text"

\* A fallback that is the first palette color (mutant of FALLBACK_COLOR)
FALLBACK_IS_PRESET == "#ef4444"

\* line 147: the preview's color for a name that has no colorMap entry
FALLBACK_COLOR == "#888888"

\* lines 8-17
COLOR_PRESETS ==
    << "#ef4444", "#3b82f6", "#22c55e", "#f97316",
       "#a855f7", "#06b6d4", "#ec4899", "#eab308" >>

\* The single-character tokens of the alphabet.
Chars == {"{", "}", "$", "&", ".", "(", "a", "b", "x", "y", "z", "w",
          "+", "=", " ", "1", "2", "3"}

Min(S) == CHOOSE p \in S : \A q \in S : p <= q

\* a || b of JavaScript on strings, with "undefined" for a missing key:
\* the empty string and undefined are falsy.
Undefined == "undefined"
OrElse(a, b) == IF a = Undefined \/ a = "" THEN b ELSE a

\* colors[termName]
Lookup(colors, termName) ==
    IF termName \in DOMAIN colors THEN colors[termName] ELSE Undefined

\* { ...prev, [termName]: color }
\* An object with the new entry only, the previous entries not spread into
\* it (mutant of WithEntry)
WithEntry_NoSpread(prev, termName, color) ==
    [n \in {termName} |-> color]

WithEntry(prev, termName, color) ==
    [n \in DOMAIN prev \cup {termName} |->
        IF n = termName THEN color ELSE prev[n]]

\* const next = { ...prev }; delete next[termName]
WithoutEntry(prev, termName) ==
    [n \in DOMAIN prev \ {termName} |-> prev[n]]

-----------------------------------------------------------------------------
(* The annotation pattern /\\clr\{([^}]+)\}\{([^}]+)\}/g  (lines 121, 144) *)

\* Index of the first "}" at or after position from, 0 when there is none.
\* [^}]+ followed by \} stops exactly there.
IndexOfClose(s, from) ==
    LET hits == {p \in from..Len(s) : s[p] = "}"}
    IN  IF hits = {} THEN 0 ELSE Min(hits)

\* The pattern matched at position i: <<i, j, k>> with s[j] the "}" that
\* closes the name and s[k] the "}" that closes the content; <<>> when the
\* pattern does not match at i.
ClrMatchAt(s, i) ==
    LET j == IndexOfClose(s, i + 1)
        k == IF j = 0 THEN 0 ELSE IndexOfClose(s, j + 2)
    IN  IF /\ i >= 1 /\ i <= Len(s)
           /\ s[i] = CLR
           /\ j > i + 1
           /\ j + 1 <= Len(s)
           /\ s[j + 1] = "{"
           /\ k > j + 2
        THEN <<i, j, k>>
        ELSE <<>>

\* pattern.exec(latexStr) with pattern.lastIndex = lastIndex (1-based here):
\* the leftmost match that starts at or after lastIndex, <<>> for null.
ClrExec(s, lastIndex) ==
    LET starts == {i \in lastIndex..Len(s) : ClrMatchAt(s, i) # <<>>}
    IN  IF starts = {} THEN <<>> ELSE ClrMatchAt(s, Min(starts))

\* The loop with the palette indexed by the number of terms found so far
\* that have no colorMap entry, not by the number of all terms found
\* (mutant of ParseLoop)
RECURSIVE ParseLoop_ByUnknowns(_, _, _, _)
ParseLoop_ByUnknowns(latexStr, colors, lastIndex, foundTerms) ==
    LET match == ClrExec(latexStr, lastIndex)
    IN  IF match = <<>>
        THEN foundTerms
        ELSE LET termName == SubSeq(latexStr, match[1] + 1, match[2] - 1)
                 content  == SubSeq(latexStr, match[2] + 2, match[3] - 1)
                 unknowns == Cardinality({i \in 1..Len(foundTerms) :
                                 foundTerms[i].name \notin DOMAIN colors})
                 preset   == COLOR_PRESETS[(unknowns % Len(COLOR_PRESETS)) + 1]
             IN  ParseLoop_ByUnknowns(latexStr, colors, match[3] + 1,
                     Append(foundTerms,
                            [name    |-> termName,
                             content |-> content,
                             color   |-> OrElse(Lookup(colors, termName), preset)]))

\* lines 125-132: the while loop over pattern.exec
RECURSIVE ParseLoop(_, _, _, _)
ParseLoop(latexStr, colors, lastIndex, foundTerms) ==
    LET match == ClrExec(latexStr, lastIndex)
    IN  IF match = <<>>
        THEN foundTerms
        ELSE LET termName == SubSeq(latexStr, match[1] + 1, match[2] - 1)
                 content  == SubSeq(latexStr, match[2] + 2, match[3] - 1)
                 preset   == COLOR_PRESETS[(Len(foundTerms) % Len(COLOR_PRESETS)) + 1]
             IN  ParseLoop(latexStr, colors, match[3] + 1,
                     Append(foundTerms,
                            [name    |-> termName,
                             content |-> content,
                             color   |-> OrElse(Lookup(colors, termName), preset)]))

\* lines 120-135: the list handed to setTerms
parseTermsFromLatex(latexStr, colors) == ParseLoop(latexStr, colors, 1, <<>>)

-----------------------------------------------------------------------------
(* The per-term patterns new RegExp(`\\\\clr\\{${termName}\\}\\{...\\}`, 'g')
   of lines 169 and 186: termName is pasted into the pattern source unescaped *)

\* new RegExp throws a SyntaxError: "(" opens a group that nothing closes
\* (the alphabet has no ")").
RegExpThrows(termName) == \E p \in 1..Len(termName) : termName[p] = "("

\* One character of termName read as a pattern atom, against one token:
\*   "."  matches any single character (no line terminator is in the alphabet),
\*        so never a multi-character token: the pattern asks for "}" right
\*        after the name, and a run of fewer than five "." that starts inside
\*        a "\clr{" ends on one of its characters or on the one before "{";
\*   "$"  asserts the end of input, and the \} that follows can then not match;
\*   CLR  reads as \cl (control-L) r { , and no token holds a control-L;
\*   any other token of the alphabet is a literal.
AtomMatches(a, t) ==
    CASE a = "."   -> t \in Chars
      [] a = "$"   -> FALSE
      [] a = CLR   -> FALSE
      [] OTHER     -> a = t

\* The per-term pattern matched at position i, as ClrMatchAt.
TermMatchAt(s, i, termName) ==
    LET n == Len(termName)
        j == i + n + 1
        k == IF j + 2 <= Len(s) THEN IndexOfClose(s, j + 2) ELSE 0
    IN  IF /\ i >= 1 /\ j + 1 <= Len(s)
           /\ s[i] = CLR
           /\ \A p \in 1..n : AtomMatches(termName[p], s[i + p])
           /\ s[j] = "}"
           /\ s[j + 1] = "{"
           /\ k > j + 2
        THEN <<i, j, k>>
        ELSE <<>>

\* GetSubstitution of String.prototype.replace for a replacement string:
\* $$ is a "$", $& the matched text, $1 the first capture when the pattern
\* has one; every other "$" stands for itself.
RECURSIVE GetSubstitution(_, _, _)
GetSubstitution(matched, captures, replacement) ==
    IF replacement = <<>> THEN <<>>
    ELSE IF Head(replacement) = "$" /\ Len(replacement) >= 2
    THEN LET rest == SubSeq(replacement, 3, Len(replacement))
         IN  CASE replacement[2] = "$" ->
                    <<"$">> \o GetSubstitution(matched, captures, rest)
               [] replacement[2] = "&" ->
                    matched \o GetSubstitution(matched, captures, rest)
               [] replacement[2] = "1" /\ Len(captures) >= 1 ->
                    captures[1] \o GetSubstitution(matched, captures, rest)
               [] OTHER ->
                    <<"$">> \o GetSubstitution(matched, captures, Tail(replacement))
    ELSE <<Head(replacement)>> \o GetSubstitution(matched, captures, Tail(replacement))

\* prev.replace(pattern, replacement) with the global per-term pattern: every
\* match, left to right and not overlapping, is replaced; replaced text is not
\* scanned again.  withCapture says whether the pattern has the group ([^}]+).
RECURSIVE ReplaceFrom(_, _, _, _, _)
ReplaceFrom(s, termName, replacement, withCapture, from) ==
    LET starts == {i \in from..Len(s) : TermMatchAt(s, i, termName) # <<>>}
    IN  IF starts = {}
        THEN SubSeq(s, from, Len(s))
        ELSE LET m        == TermMatchAt(s, Min(starts), termName)
                 matched  == SubSeq(s, m[1], m[3])
                 captures == IF withCapture
                             THEN << SubSeq(s, m[2] + 2, m[3] - 1) >>
                             ELSE <<>>
             IN  SubSeq(s, from, m[1] - 1)
                     \o GetSubstitution(matched, captures, replacement)
                     \o ReplaceFrom(s, termName, replacement, withCapture, m[3] + 1)

\* lines 168-171: the updater handed to setLatex by handleUpdateTerm
UpdateTermLatex(prev, termName, newContent) ==
    ReplaceFrom(prev, termName,
                <<CLR>> \o termName \o <<"}", "{">> \o newContent \o <<"}">>,
                FALSE, 1)

\* lines 185-188: the updater handed to setLatex by handleRemoveTerm
RemoveTermLatex(prev, termName) ==
    ReplaceFrom(prev, termName, <<"$", "1">>, TRUE, 1)

\* lines 207-214: latex.substring(start, end), 0-based and end exclusive
Substring(s, start, end) == SubSeq(s, start + 1, end)

SelectedText(s, start, end) ==
    IF Substring(s, start, end) = <<>> THEN <<DEFAULT_TEXT>>
    ELSE Substring(s, start, end)

AddTermLatex(s, start, end, newTermName) ==
    Substring(s, 0, start)
        \o <<CLR>> \o newTermName \o <<"}", "{">>
        \o SelectedText(s, start, end) \o <<"}">>
        \o Substring(s, end, Len(s))

\* lines 143-149: processedLatex, the string handed to katex.render
RECURSIVE ProcessFrom(_, _, _)
ProcessFrom(s, colors, from) ==
    LET m == ClrExec(s, from)
    IN  IF m = <<>>
        THEN SubSeq(s, from, Len(s))
        ELSE LET termName == SubSeq(s, m[1] + 1, m[2] - 1)
                 content  == SubSeq(s, m[2] + 2, m[3] - 1)
                 color    == OrElse(Lookup(colors, termName), FALLBACK_COLOR)
             IN  SubSeq(s, from, m[1] - 1)
                     \o <<TEXTCOLOR, color, "}", "{">> \o content \o <<"}">>
                     \o ProcessFrom(s, colors, m[3] + 1)

processedLatex(s, colors) == ProcessFrom(s, colors, 1)

-----------------------------------------------------------------------------
(* Inputs: markups are put together from segments, either a piece of plain
   text or one annotation \clr{name}{content} *)

Txt(t) == <<"txt", t>>
Ann(n, c) == <<"ann", n, c>>
IsAnn(seg) == seg[1] = "ann"

AnnText(n, c) == <<CLR>> \o n \o <<"}", "{">> \o c \o <<"}">>
SegText(seg) == IF IsAnn(seg) THEN AnnText(seg[2], seg[3]) ELSE seg[2]

RECURSIVE Flatten(_)
Flatten(ss) == IF ss = <<>> THEN <<>> ELSE SegText(Head(ss)) \o Flatten(Tail(ss))

\* Bounds of the inputs
MaxSegs == 2
MaxRep == 9

EmptyMap == [n \in {} |-> ""]

\* Term names handed to the per-term patterns: plain ones and ones holding a
\* character that is special in a pattern.
Names == { <<"a">>, <<"b">>, <<".">>, <<"$">>, <<"(">>, <<".", ".", ".", ".">> }

\* New contents typed into a term's input field (line 48).
Contents == { <<>>, <<"x">>, <<"w">>, <<"$", "$">>, <<"$", "&">>, <<"}">> }

TextPieces == { Txt(<<"x">>), Txt(<<CLR>>), Txt(<<"}", "{", "x", "}">>) }

AnnPieces ==
    { Ann(<<"a">>, <<"x">>), Ann(<<"b">>, <<"y">>),
      Ann(<<"a">>, <<"$", "$">>), Ann(<<"a">>, <<CLR, "a">>),
      Ann(<<".">>, <<"x">>), Ann(<<"$">>, <<"x">>), Ann(<<"(">>, <<"x">>) }

Pieces == TextPieces \cup AnnPieces

\* "x + \clr{a}{y} = \clr{b}{z}"
Scenario ==
    << Txt(<<"x", " ", "+", " ">>), Ann(<<"a">>, <<"y">>),
       Txt(<<" ", "=", " ">>), Ann(<<"b">>, <<"z">>) >>

\* "\clr{a}{x}\clr{bbbb}{{w}}": two annotations side by side, none inside
\* the other, followed by a closing brace
SideBySide ==
    << Ann(<<"a">>, <<"x">>), Ann(<<"b", "b", "b", "b">>, <<"{", "w">>),
       Txt(<<"}">>) >>

\* k annotations in a row, named a and b in turn: more than the palette holds
LongSegs(k) ==
    [i \in 1..k |-> IF i % 2 = 1 THEN Ann(<<"a">>, <<"x">>)
                                 ELSE Ann(<<"b">>, <<"y">>)]

FnInputs ==
    UNION { [1..n -> Pieces] : n \in 0..MaxSegs }
        \cup { LongSegs(k) : k \in Len(COLOR_PRESETS)..MaxRep }
        \cup { Scenario, SideBySide }

FnColorMaps ==
    { EmptyMap,
      (<<"b">> :> "#22c55e"),
      (<<"a">> :> "#eab308") @@ (<<"b">> :> "#ef4444") }

\* The name handleAddTerm makes up for the first added term (line 201)
FreshName == <<"term", "1">>

-----------------------------------------------------------------------------
(* FnSpec: one call of one of the pure functions on an input markup *)

FnInit ==
    /\ segs \in FnInputs
    /\ fnColors = EmptyMap
    /\ fnOp = "none"
    /\ fnName = <<>>
    /\ fnContent = <<>>
    /\ fnRange = <<0, 0>>
    /\ fnOut = <<>>
    /\ fnOut2 = <<>>
    /\ fnTerms = <<>>
    /\ fnThrew = FALSE
    /\ latex = <<>>
    /\ colorMap = EmptyMap
    /\ terms = <<>>
    /\ activeTab = "latex"
    /\ textareaRef = "null"
    /\ error = "null"
    /\ editingEquation = "none"
    /\ preview = <<>>
    /\ pendingEffect = FALSE
    /\ crashed = FALSE
    /\ committed = <<>>
    /\ lastOp = "none"
    /\ rendered = "none"
    /\ pristineNames = FALSE

\* extract: parseTermsFromLatex(markup, colorMap)
FnExtract ==
    /\ fnOp = "none"
    /\ \E colors \in FnColorMaps :
        /\ fnColors' = colors
        /\ fnTerms' = parseTermsFromLatex(Flatten(segs), colors)
    /\ fnOp' = "extract"
    /\ UNCHANGED <<segs, fnName, fnContent, fnRange, fnOut, fnOut2, fnThrew>>
    /\ UNCHANGED sessionVars

\* toRenderable: processedLatex(markup, colorMap)
FnRender ==
    /\ fnOp = "none"
    /\ \E colors \in FnColorMaps :
        /\ fnColors' = colors
        /\ fnOut' = processedLatex(Flatten(segs), colors)
    /\ fnOp' = "render"
    /\ UNCHANGED <<segs, fnName, fnContent, fnRange, fnOut2, fnTerms, fnThrew>>
    /\ UNCHANGED sessionVars

\* updateTerm: the setLatex updater of handleUpdateTerm
FnUpdate ==
    /\ fnOp = "none"
    /\ \E termName \in Names, newContent \in Contents :
        /\ fnName' = termName
        /\ fnContent' = newContent
        /\ IF RegExpThrows(termName)
           THEN fnThrew' = TRUE /\ fnOut' = fnOut
           ELSE fnThrew' = FALSE
                /\ fnOut' = UpdateTermLatex(Flatten(segs), termName, newContent)
    /\ fnOp' = "update"
    /\ UNCHANGED <<segs, fnColors, fnRange, fnOut2, fnTerms>>
    /\ UNCHANGED sessionVars

\* removeTerm: the setLatex updater of handleRemoveTerm
FnRemove ==
    /\ fnOp = "none"
    /\ \E termName \in Names :
        /\ fnName' = termName
        /\ IF RegExpThrows(termName)
           THEN fnThrew' = TRUE /\ fnOut' = fnOut
           ELSE fnThrew' = FALSE
                /\ fnOut' = RemoveTermLatex(Flatten(segs), termName)
    /\ fnOp' = "remove"
    /\ UNCHANGED <<segs, fnColors, fnContent, fnRange, fnOut2, fnTerms>>
    /\ UNCHANGED sessionVars

\* removeTerm applied to its own result, with the same name
FnRemoveAgain ==
    /\ fnOp = "remove"
    /\ ~fnThrew
    /\ fnOut2' = RemoveTermLatex(fnOut, fnName)
    /\ fnOp' = "removeTwice"
    /\ UNCHANGED <<segs, fnColors, fnName, fnContent, fnRange, fnOut, fnTerms, fnThrew>>
    /\ UNCHANGED sessionVars

\* insertTerm: the new markup built by handleAddTerm for a selection
FnInsert ==
    /\ fnOp = "none"
    /\ \E start \in 0..Len(Flatten(segs)) :
       \E end \in start..Len(Flatten(segs)) :
        /\ fnRange' = <<start, end>>
        /\ fnOut' = AddTermLatex(Flatten(segs), start, end, FreshName)
    /\ fnName' = FreshName
    /\ fnOp' = "insert"
    /\ UNCHANGED <<segs, fnColors, fnContent, fnOut2, fnTerms, fnThrew>>
    /\ UNCHANGED sessionVars

FnNext ==
    \/ FnExtract
    \/ FnRender
    \/ FnUpdate
    \/ FnRemove
    \/ FnRemoveAgain
    \/ FnInsert

FnSpec == FnInit /\ [][FnNext]_vars

-----------------------------------------------------------------------------
(* Spec: one editing session of the modal *)

\* Bounds of the session
MaxLatexLen == 24
NPickColors == 1

\* null, as the value of error
Null == "null"

\* Nothing was handed to the host; a handed-over pair is a one-element
\* sequence.
None == <<>>

\* editingEquation: null, or the equation the host wants edited
NoEquation == "none"
AnEquation == "equation"

\* Term names that are pairwise distinct
DistinctNames(ts) ==
    \A i, j \in 1..Len(ts) : ts[i].name = ts[j].name => i = j

\* Markups the host opens the editor with, and markups typed into the textarea
SessionMarkups ==
    { Flatten(ss) : ss \in
        { <<>>,
          << Txt(<<"x">>) >>,
          Scenario,
          << Ann(<<"a">>, <<"x">>), Ann(<<"a">>, <<"x">>) >>,
          << Ann(<<"(">>, <<"x">>) >>,
          << Ann(<<"term", "2">>, <<"x">>) >> } }

\* The colorMaps the host opens the editor with
SessionColorMaps == { EmptyMap, (<<"b">> :> "#22c55e") }

\* The equations the host hands over: editingEquation.latex and
\* editingEquation.colorMap || {}  (lines 113-115)
HostEquations == [latex : SessionMarkups, colorMap : SessionColorMaps]

\* New contents typed into the input field of a TermEditor (line 48)
SessionContents == { <<>>, <<"w">>, <<"}">> }

\* The swatches of the color picker that get clicked (lines 65-79)
PickColors == { COLOR_PRESETS[i] : i \in 1..NPickColors }

\* The message of a caught render error (line 158)
ERROR_MESSAGE == "message"

\* The preview element before anything was rendered into it (lines 307-313)
BLANK == <<>>

\* lines 283-317: the preview element is mounted together with the textarea,
\* on the 'latex' tab of the open modal, and its ref is null otherwise.
previewRef == textareaRef

\* lines 111-117: the state once the equation handed over by the host is open;
\* the modal opens on the 'latex' tab, whose textarea is mounted, and the
\* render-preview effect is due (its dependencies have changed).
Init ==
    /\ \E initialMarkup \in SessionMarkups, initialColorMap \in SessionColorMaps :
        /\ latex = initialMarkup
        /\ colorMap = initialColorMap
        /\ terms = parseTermsFromLatex(initialMarkup, initialColorMap)
        /\ pristineNames =
              DistinctNames(parseTermsFromLatex(initialMarkup, initialColorMap))
    /\ editingEquation = AnEquation
    /\ activeTab = "latex"
    /\ textareaRef = "node"
    /\ error = Null
    /\ preview = BLANK
    /\ pendingEffect = TRUE
    /\ crashed = FALSE
    /\ committed = None
    /\ lastOp = "init"
    /\ rendered = "none"
    /\ segs = <<>>
    /\ fnColors = EmptyMap
    /\ fnOp = "none"
    /\ fnName = <<>>
    /\ fnContent = <<>>
    /\ fnRange = <<0, 0>>
    /\ fnOut = <<>>
    /\ fnOut2 = <<>>
    /\ fnTerms = <<>>
    /\ fnThrew = FALSE

\* line 232: the modal is rendered, and takes an event, while an equation is
\* being edited; React runs the effects of a render before the next event.
Ready == editingEquation = AnEquation /\ ~crashed /\ ~pendingEffect

\* lines 257-278: the tab buttons; the textarea and the preview element exist
\* on the 'latex' tab only (line 283): React sets the ref of an unmounted
\* element to null and mounts a new, blank preview element with the tab.
SetActiveTab(tab) ==
    /\ Ready
    /\ activeTab # tab
    /\ activeTab' = tab
    /\ textareaRef' = IF tab = "latex" THEN "node" ELSE "null"
    /\ preview' = BLANK
    /\ rendered' = "none"
    /\ UNCHANGED <<latex, colorMap, terms, error, editingEquation,
                   pendingEffect, crashed, committed, lastOp, pristineNames>>
    /\ UNCHANGED fnVars

\* An onChange that stores the text and does not parse it again
\* (mutant of EditRawMarkup)
EditRawMarkup_NoReparse(newMarkup) ==
    /\ Ready
    /\ activeTab = "latex"
    /\ newMarkup # latex
    /\ latex' = newMarkup
    /\ pendingEffect' = TRUE
    /\ lastOp' = "edit"
    /\ rendered' = "none"
    /\ pristineNames' = FALSE
    /\ UNCHANGED <<colorMap, terms, activeTab, textareaRef, error,
                   editingEquation, preview, crashed, committed>>
    /\ UNCHANGED fnVars

\* lines 290-293: the textarea's onChange (EditRawMarkup); latex is a
\* dependency of the render-preview effect (line 160)
EditRawMarkup(newMarkup) ==
    /\ Ready
    /\ activeTab = "latex"
    /\ newMarkup # latex
    /\ latex' = newMarkup
    /\ terms' = parseTermsFromLatex(newMarkup, colorMap)
    /\ pendingEffect' = TRUE
    /\ lastOp' = "edit"
    /\ rendered' = "none"
    /\ pristineNames' = FALSE
    /\ UNCHANGED <<colorMap, activeTab, textareaRef, error, editingEquation,
                   preview, crashed, committed>>
    /\ UNCHANGED fnVars

\* A term list in which the matching entries take the new content and keep
\* their color (mutant of UpdatedTerms)
UpdatedTerms_KeepColor(prev, termName, newContent, newColor) ==
    [i \in 1..Len(prev) |->
        IF prev[i].name = termName
        THEN [name |-> prev[i].name, content |-> newContent,
              color |-> prev[i].color]
        ELSE prev[i]]

\* lines 174-180: the term list with the matching entries replaced
UpdatedTerms(prev, termName, newContent, newColor) ==
    [i \in 1..Len(prev) |->
        IF prev[i].name = termName
        THEN [name |-> prev[i].name, content |-> newContent, color |-> newColor]
        ELSE prev[i]]

\* lines 163-181: handleUpdateTerm, called by a TermEditor of the 'terms' tab
\* (lines 49 and 74) with the name of its term.  When the pattern cannot be
\* built the setLatex updater throws while React applies the update.
\* setColorMap stores a new object, so the render-preview effect is due.
handleUpdateTerm(termName, newContent, newColor) ==
    /\ Ready
    /\ activeTab = "terms"
    /\ lastOp' = "update"
    /\ rendered' = "none"
    /\ IF RegExpThrows(termName)
       THEN /\ crashed' = TRUE
            /\ UNCHANGED <<latex, colorMap, terms, pendingEffect>>
       ELSE /\ colorMap' = WithEntry(colorMap, termName, newColor)
            /\ latex' = UpdateTermLatex(latex, termName, newContent)
            /\ terms' = UpdatedTerms(terms, termName, newContent, newColor)
            /\ pendingEffect' = TRUE
            /\ UNCHANGED crashed
    /\ UNCHANGED <<activeTab, textareaRef, error, editingEquation, preview,
                   committed, pristineNames>>
    /\ UNCHANGED fnVars

\* line 196
FilteredTerms(prev, termName) ==
    LET Keep(t) == t.name # termName
    IN  SelectSeq(prev, Keep)

\* lines 184-197: handleRemoveTerm, called by a TermEditor (line 86)
handleRemoveTerm(termName) ==
    /\ Ready
    /\ activeTab = "terms"
    /\ lastOp' = "remove"
    /\ rendered' = "none"
    /\ IF RegExpThrows(termName)
       THEN /\ crashed' = TRUE
            /\ UNCHANGED <<latex, colorMap, terms, pendingEffect>>
       ELSE /\ latex' = RemoveTermLatex(latex, termName)
            /\ colorMap' = WithoutEntry(colorMap, termName)
            /\ terms' = FilteredTerms(terms, termName)
            /\ pendingEffect' = TRUE
            /\ UNCHANGED crashed
    /\ UNCHANGED <<activeTab, textareaRef, error, editingEquation, preview,
                   committed, pristineNames>>
    /\ UNCHANGED fnVars

\* line 201
NewTermName(count) == <<"term", ToString(count + 1)>>

\* lines 211-218: the state handleAddTerm sets for the selection [start, end)
AddedTerm(start, end) ==
    LET newTermName == NewTermName(Len(terms))
        newColor == COLOR_PRESETS[(Len(terms) % Len(COLOR_PRESETS)) + 1]
    IN  /\ Len(latex) + Len(newTermName) + 5 <= MaxLatexLen
        /\ latex' = AddTermLatex(latex, start, end, newTermName)
        /\ colorMap' = WithEntry(colorMap, newTermName, newColor)
        /\ terms' = Append(terms,
              [name |-> newTermName,
               content |-> SelectedText(latex, start, end),
               color |-> newColor])
        /\ pendingEffect' = TRUE

\* A handleAddTerm that finds a textarea, with some selection, whichever tab
\* is shown (mutant of handleAddTerm)
handleAddTerm_WithTextarea ==
    /\ Ready
    /\ activeTab = "terms"
    /\ lastOp' = "add"
    /\ rendered' = "none"
    /\ \E start \in 0..Len(latex) : \E end \in start..Len(latex) :
          AddedTerm(start, end)
    /\ UNCHANGED <<activeTab, textareaRef, error, editingEquation, preview,
                   crashed, committed, pristineNames>>
    /\ UNCHANGED fnVars

\* lines 200-220: handleAddTerm, the button of the 'terms' tab (lines 341-346).
\* Without a textarea (line 206) it changes nothing.
handleAddTerm ==
    /\ Ready
    /\ activeTab = "terms"
    /\ lastOp' = "add"
    /\ rendered' = "none"
    /\ IF textareaRef = "node"
       THEN \E start \in 0..Len(latex) : \E end \in start..Len(latex) :
              AddedTerm(start, end)
       ELSE UNCHANGED <<latex, colorMap, terms, pendingEffect>>
    /\ UNCHANGED <<activeTab, textareaRef, error, editingEquation, preview,
                   crashed, committed, pristineNames>>
    /\ UNCHANGED fnVars

\* A render-preview effect that, when the renderer throws, also clears the
\* markup and the term list (mutant of RenderPreviewEffect)
RenderPreviewEffect_ResetOnError(fails) ==
    /\ editingEquation = AnEquation
    /\ ~crashed
    /\ pendingEffect
    /\ pendingEffect' = FALSE
    /\ IF previewRef = "null" \/ latex = <<>>
       THEN /\ rendered' = "skipped"
            /\ UNCHANGED <<error, preview, latex, terms>>
       ELSE IF fails
       THEN /\ error' = ERROR_MESSAGE
            /\ preview' = BLANK
            /\ rendered' = "threw"
            /\ latex' = <<>>
            /\ terms' = <<>>
       ELSE /\ preview' = processedLatex(latex, colorMap)
            /\ error' = Null
            /\ rendered' = "ok"
            /\ UNCHANGED <<latex, terms>>
    /\ UNCHANGED <<colorMap, activeTab, textareaRef, editingEquation,
                   crashed, committed, lastOp, pristineNames>>
    /\ UNCHANGED fnVars

\* lines 138-160: the render-preview effect, run after a render in which
\* latex or colorMap changed.  It returns at once without a preview element
\* or with an empty markup (line 139).  katex.render is the external
\* renderer: whether it throws is its own business (fails); it empties the
\* element before it builds the rendering, so a render that throws leaves
\* the element blank.
RenderPreviewEffect(fails) ==
    /\ editingEquation = AnEquation
    /\ ~crashed
    /\ pendingEffect
    /\ pendingEffect' = FALSE
    /\ IF previewRef = "null" \/ latex = <<>>
       THEN /\ rendered' = "skipped"
            /\ UNCHANGED <<error, preview>>
       ELSE IF fails
       THEN /\ error' = ERROR_MESSAGE
            /\ preview' = BLANK
            /\ rendered' = "threw"
       ELSE /\ preview' = processedLatex(latex, colorMap)
            /\ error' = Null
            /\ rendered' = "ok"
    /\ UNCHANGED <<latex, colorMap, terms, activeTab, textareaRef,
                   editingEquation, crashed, committed, lastOp, pristineNames>>
    /\ UNCHANGED fnVars

\* The host on saveEquationEdit(markup, colors) (line 224): it takes the pair
\* and ends the editing (editingEquation becomes null).
saveEquationEdit(markup, colors) ==
    /\ committed' = << [latex |-> markup, colorMap |-> colors] >>
    /\ editingEquation' = NoEquation

\* The host on closeEquationEditor() (line 229): it ends the editing.
closeEquationEditor ==
    /\ committed' = committed
    /\ editingEquation' = NoEquation

\* A save that hands over the markup and no colors (mutant of handleSave)
handleSave_NoColors ==
    /\ Ready
    /\ saveEquationEdit(latex, EmptyMap)
    /\ textareaRef' = "null"
    /\ preview' = BLANK
    /\ lastOp' = "save"
    /\ rendered' = "none"
    /\ UNCHANGED <<latex, colorMap, terms, activeTab, error, pendingEffect,
                   crashed, pristineNames>>
    /\ UNCHANGED fnVars

\* lines 223-225 and 359-364: handleSave, the "Apply Changes" button.  Once
\* the host has ended the editing the component renders nothing (line 232):
\* its elements are unmounted, its state stays.
handleSave ==
    /\ Ready
    /\ saveEquationEdit(latex, colorMap)
    /\ textareaRef' = "null"
    /\ preview' = BLANK
    /\ lastOp' = "save"
    /\ rendered' = "none"
    /\ UNCHANGED <<latex, colorMap, terms, activeTab, error, pendingEffect,
                   crashed, pristineNames>>
    /\ UNCHANGED fnVars

\* lines 228-230, 245-252 and 353-358: handleCancel, the close and the
\* "Cancel" buttons
handleCancel ==
    /\ Ready
    /\ closeEquationEditor
    /\ textareaRef' = "null"
    /\ preview' = BLANK
    /\ lastOp' = "cancel"
    /\ rendered' = "none"
    /\ UNCHANGED <<latex, colorMap, terms, activeTab, error, pendingEffect,
                   crashed, pristineNames>>
    /\ UNCHANGED fnVars

\* lines 111-117: the host opens an equation again and the init effect runs.
\* The component was mounted all along, so activeTab and error are those of
\* the previous session, and the elements of the shown tab are mounted anew.
\* The render-preview effect is due when latex or colorMap changed: the
\* markup by value, the colorMap by identity (sameObject: the host hands
\* over the very object the state holds, e.g. the one it was given on save).
OpenEquationEditor(equation, sameObject) ==
    /\ editingEquation = NoEquation
    /\ ~crashed
    /\ sameObject => equation.colorMap = colorMap
    /\ editingEquation' = AnEquation
    /\ latex' = equation.latex
    /\ colorMap' = equation.colorMap
    /\ terms' = parseTermsFromLatex(equation.latex, equation.colorMap)
    /\ textareaRef' = IF activeTab = "latex" THEN "node" ELSE "null"
    /\ preview' = BLANK
    /\ pendingEffect' = (equation.latex # latex \/ ~sameObject)
    /\ committed' = None
    /\ lastOp' = "init"
    /\ rendered' = "none"
    /\ pristineNames' =
          DistinctNames(parseTermsFromLatex(equation.latex, equation.colorMap))
    /\ UNCHANGED <<activeTab, error, crashed>>
    /\ UNCHANGED fnVars

Next ==
    \/ \E tab \in {"latex", "terms"} : SetActiveTab(tab)
    \/ \E newMarkup \in SessionMarkups : EditRawMarkup(newMarkup)
    \/ \E i \in 1..Len(terms) :
       \E newContent \in SessionContents :
       \E newColor \in PickColors \cup {terms[i].color} :
          handleUpdateTerm(terms[i].name, newContent, newColor)
    \/ \E i \in 1..Len(terms) : handleRemoveTerm(terms[i].name)
    \/ handleAddTerm
    \/ \E fails \in BOOLEAN : RenderPreviewEffect(fails)
    \/ handleSave
    \/ handleCancel
    \/ \E equation \in HostEquations : \E sameObject \in BOOLEAN :
          OpenEquationEditor(equation, sameObject)

Spec == Init /\ [][Next]_vars

-----------------------------------------------------------------------------
(* What the claims speak of *)

\* The input markup of the call
Markup == Flatten(segs)

HasClr(t) == \E p \in 1..Len(t) : t[p] = CLR

\* Every "\clr{" of the markup opens one of its annotation segments: no
\* annotation inside another, no stray "\clr{" in the text.
Clean(ss) ==
    \A i \in 1..Len(ss) :
        IF IsAnn(ss[i]) THEN ~HasClr(ss[i][2]) /\ ~HasClr(ss[i][3])
        ELSE ~HasClr(ss[i][2])

\* <<name, content>> of every term of a term list, in order
NamesContents(ts) == [i \in 1..Len(ts) |-> <<ts[i].name, ts[i].content>>]

\* <<name, content>> of every annotation segment, in order
AnnsOf(ss) ==
    LET anns == SelectSeq(ss, IsAnn)
    IN  [i \in 1..Len(anns) |-> <<anns[i][2], anns[i][3]>>]

\* The i-th smallest element of a set of numbers
Nth(S, i) == CHOOSE p \in S : Cardinality({q \in S : q < p}) = i - 1

\* Where the color directives of a render string start
TextcolorAt(out) == {p \in 1..Len(out) : out[p] = TEXTCOLOR}

Range(f) == {f[i] : i \in DOMAIN f}

\* C3: whenever removeTerm returns, extract of its result yields no Term with
\* the removed name, and every removed occurrence \clr{N}{C} has lost its
\* annotation wrapper.

ClrCount(t) == Cardinality({p \in 1..Len(t) : t[p] = CLR})

NamedSegs(ss, termName) ==
    {i \in 1..Len(ss) : IsAnn(ss[i]) /\ ss[i][2] = termName}

C3_RemoveLeavesNoTerm ==
    (fnOp = "remove" /\ ~fnThrew) =>
        /\ \A i \in 1..Len(parseTermsFromLatex(fnOut, fnColors)) :
              parseTermsFromLatex(fnOut, fnColors)[i].name # fnName
        /\ Clean(segs) =>
              ClrCount(fnOut) <= ClrCount(Markup) - Cardinality(NamedSegs(segs, fnName))

\* C4: removeTerm is idempotent: a second removeTerm(_, N) changes nothing.
C4_RemoveIdempotent ==
    fnOp = "removeTwice" => fnOut2 = fnOut

\* C5: insertTerm then extract yields exactly one more Term: the prior Terms
\* are still there and the new one has the fresh name and the selected text
\* (or 'text' for an empty range) as its content.
ClaimedSelection ==
    IF fnRange[1] = fnRange[2] THEN <<"text">>
    ELSE SubSeq(Markup, fnRange[1] + 1, fnRange[2])

WithoutIndex(q, p) == SubSeq(q, 1, p - 1) \o SubSeq(q, p + 1, Len(q))

C5_InsertAddsOneTerm ==
    fnOp = "insert" =>
        LET before == NamesContents(parseTermsFromLatex(Markup, EmptyMap))
            after  == NamesContents(parseTermsFromLatex(fnOut, EmptyMap))
        IN  /\ Len(after) = Len(before) + 1
            /\ \E p \in 1..Len(after) :
                  /\ after[p] = <<fnName, ClaimedSelection>>
                  /\ WithoutIndex(after, p) = before

\* C6: for a markup in which N occurs exactly once, as \clr{N}{C}, the
\* markup updateTerm(M, N, C) returns re-extracts to a Term with name N and
\* content C.
OccursOnceAs(markup, termName, content) ==
    LET ts == parseTermsFromLatex(markup, EmptyMap)
    IN  /\ Cardinality({i \in 1..Len(ts) : ts[i].name = termName}) = 1
        /\ \E i \in 1..Len(ts) : ts[i].name = termName /\ ts[i].content = content

C6_UpdateRoundTrip ==
    (fnOp = "update" /\ ~fnThrew /\ OccursOnceAs(Markup, fnName, fnContent)) =>
        \E i \in 1..Len(parseTermsFromLatex(fnOut, EmptyMap)) :
            /\ parseTermsFromLatex(fnOut, EmptyMap)[i].name = fnName
            /\ parseTermsFromLatex(fnOut, EmptyMap)[i].content = fnContent

\* C7: updateTerm and removeTerm are name-scoped: what they return is the
\* markup unchanged when it has no annotation named exactly N, and has the
\* annotations with another name left as they are.
OtherNamed(pairs, termName) ==
    LET Other(e) == e[1] # termName
    IN  SelectSeq(pairs, Other)

C7_NameScoped ==
    (fnOp \in {"update", "remove"} /\ ~fnThrew) =>
        /\ (\A i \in 1..Len(parseTermsFromLatex(Markup, EmptyMap)) :
                parseTermsFromLatex(Markup, EmptyMap)[i].name # fnName)
              => fnOut = Markup
        /\ Clean(segs) =>
              OtherNamed(NamesContents(parseTermsFromLatex(fnOut, EmptyMap)), fnName)
                  = OtherNamed(AnnsOf(segs), fnName)

\* C8: extract returns one Term per annotation occurrence, left to right and
\* duplicates kept; the i-th Term (from 0) has colorMap[name] when the name
\* is a key of colorMap, else the palette color at index i modulo the palette
\* size; the scenario markup with an empty colorMap yields a with palette[0]
\* and b with palette[1].
C8_ExtractOrderAndColors ==
    fnOp = "extract" =>
        /\ \A i \in 1..Len(fnTerms) :
              fnTerms[i].color =
                  IF fnTerms[i].name \in DOMAIN fnColors
                  THEN fnColors[fnTerms[i].name]
                  ELSE COLOR_PRESETS[((i - 1) % 8) + 1]
        /\ Clean(segs) => NamesContents(fnTerms) = AnnsOf(segs)
        /\ (segs = Scenario /\ fnColors = EmptyMap) =>
              fnTerms = << [name |-> <<"a">>, content |-> <<"y">>, color |-> "#ef4444"],
                           [name |-> <<"b">>, content |-> <<"z">>, color |-> "#3b82f6"] >>

\* C8's case: more annotations than the palette has colors, the ninth without
\* a colorMap entry and so back at the first palette color, next to a term
\* whose color comes from the colorMap.
C8_Witness ==
    /\ fnOp = "extract"
    /\ Len(fnTerms) > 8
    /\ fnTerms[9].name \notin DOMAIN fnColors
    /\ fnTerms[9].color = "#ef4444"
    /\ fnTerms[2].name \in DOMAIN fnColors
    /\ fnTerms[2].color = "#22c55e"

\* C9: toRenderable rewrites every annotation occurrence \clr{name}{content}
\* into exactly \textcolor{c}{content}, c being colorMap[name] when name is in
\* colorMap and the neutral fallback color (no palette color) otherwise, and
\* copies the other text unchanged; a markup without annotations comes back
\* as it is and extracts to the empty sequence.
ClaimedColor(termName, colors) ==
    IF termName \in DOMAIN colors THEN colors[termName] ELSE "#888888"

RenderedSegs(ss, colors) ==
    [i \in 1..Len(ss) |->
        IF IsAnn(ss[i])
        THEN Txt(<<TEXTCOLOR, ClaimedColor(ss[i][2], colors), "}", "{">>
                     \o ss[i][3] \o <<"}">>)
        ELSE ss[i]]

C9_RenderRewritesAnnotations ==
    fnOp = "render" =>
        LET ts == parseTermsFromLatex(Markup, fnColors)
            P  == TextcolorAt(fnOut)
        IN  /\ Cardinality(P) = Len(ts)
            /\ \A i \in 1..Len(ts) :
                  SubSeq(fnOut, Nth(P, i), Nth(P, i) + 4 + Len(ts[i].content))
                      = <<TEXTCOLOR, ClaimedColor(ts[i].name, fnColors), "}", "{">>
                            \o ts[i].content \o <<"}">>
            /\ "#888888" \notin Range(COLOR_PRESETS)
            /\ Clean(segs) => fnOut = Flatten(RenderedSegs(segs, fnColors))
            /\ ts = <<>> => fnOut = Markup

\* C9's case: a markup with text, an annotation whose name is in the colorMap
\* and one whose name is not, rendered.
C9_Witness ==
    /\ fnOp = "render"
    /\ Clean(segs)
    /\ \E i, j \in 1..Len(segs) :
          /\ IsAnn(segs[i]) /\ segs[i][2] \in DOMAIN fnColors
          /\ IsAnn(segs[j]) /\ segs[j][2] \notin DOMAIN fnColors
    /\ \E i \in 1..Len(segs) : ~IsAnn(segs[i])
    /\ fnOut # Markup

\* C10: the scenario markup with an empty colorMap renders as
\* "x + \textcolor{palette[0]}{y} = \textcolor{palette[1]}{z}": every
\* annotation is rendered in the color extract gives the corresponding Term.
C10_PreviewColorsAgree ==
    fnOp = "render" =>
        LET ts == parseTermsFromLatex(Markup, fnColors)
            P  == TextcolorAt(fnOut)
        IN  /\ Cardinality(P) = Len(ts)
            /\ \A i \in 1..Len(ts) : fnOut[Nth(P, i) + 1] = ts[i].color
            /\ (segs = Scenario /\ fnColors = EmptyMap) =>
                  fnOut = << "x", " ", "+", " ",
                             TEXTCOLOR, "#ef4444", "}", "{", "y", "}",
                             " ", "=", " ",
                             TEXTCOLOR, "#3b82f6", "}", "{", "z", "}" >>

-----------------------------------------------------------------------------
(* Claims about the session *)

\* C1 as stated: in every state of the session the term list is exactly
\* extract(Markup, ColorMap).
C1_TermsAlwaysExtracted ==
    terms = parseTermsFromLatex(latex, colorMap)

\* C1 as amended: right after Init and after every EditRawMarkup the term
\* list is exactly extract(Markup, ColorMap); UpdateTerm and RemoveTerm edit
\* the previous list in place instead.
C1_TermsExtractedAfterInitAndEdit ==
    lastOp \in {"init", "edit"} => terms = parseTermsFromLatex(latex, colorMap)

\* C1's case: a raw edit made after a term edit left an entry in the
\* colorMap: two terms re-derived, one colored from the colorMap and one
\* from the palette.
C1_Witness ==
    /\ lastOp = "edit"
    /\ Len(terms) = 2
    /\ terms[1].name \notin DOMAIN colorMap
    /\ terms[2].name \in DOMAIN colorMap
    /\ terms[2].color = colorMap[terms[2].name]
    /\ terms[2].color # COLOR_PRESETS[2]

\* C2: every Term of the term list is backed by an annotation occurrence of
\* the current Markup with that name and content, each Term by one of its own.
Count(pairs, e) == Cardinality({i \in 1..Len(pairs) : pairs[i] = e})

C2_TermsBackedByAnnotations ==
    \A i \in 1..Len(terms) :
        Count(NamesContents(terms), <<terms[i].name, terms[i].content>>)
            <= Count(NamesContents(parseTermsFromLatex(latex, colorMap)),
                     <<terms[i].name, terms[i].content>>)

C12_ColorStability ==
    /\ [](lastOp = "edit" =>
            \A j \in 1..Len(terms) :
                terms[j].name \in DOMAIN colorMap =>
                    terms[j].color = colorMap[terms[j].name])
    /\ [][ \A i \in 1..Len(terms) :
        \A newContent \in SessionContents :
        \A newColor \in PickColors \cup {terms[i].color} :
          handleUpdateTerm(terms[i].name, newContent, newColor) =>
            \A B \in DOMAIN colorMap \ {terms[i].name} :
              /\ B \in DOMAIN colorMap'
              /\ colorMap'[B] = colorMap[B]
              /\ Len(terms') = Len(terms)
              /\ \A j \in 1..Len(terms) :
                    terms[j].name = B =>
                        /\ terms'[j].name = B
                        /\ terms'[j].color = terms[j].color
        ]_vars

\* C12's case: b was pinned to green by the host, a was given a color by
\* UpdateTerm, and the markup was then typed again: b is still green.
C12_Witness ==
    /\ lastOp = "edit"
    /\ <<"a">> \in DOMAIN colorMap
    /\ <<"b">> \in DOMAIN colorMap
    /\ colorMap[<<"b">>] = "#22c55e"
    /\ \E i \in 1..Len(terms) :
          terms[i].name = <<"b">> /\ terms[i].color = "#22c55e"

\* C13: no session operation raises.
C13_NoOperationRaises ==
    ~crashed

\* C14: Commit hands the host exactly the current (Markup, ColorMap) pair;
\* Discard hands over nothing; an equation opened afterwards starts from the
\* pair the host supplies, with the terms extracted from it.
C14_CommitDiscardReopen ==
    [][ /\ handleSave =>
              committed' = << [latex |-> latex, colorMap |-> colorMap] >>
        /\ handleCancel =>
              committed' = None
        /\ \A equation \in HostEquations : \A sameObject \in BOOLEAN :
              OpenEquationEditor(equation, sameObject) =>
                  /\ latex' = equation.latex
                  /\ colorMap' = equation.colorMap
                  /\ terms' = parseTermsFromLatex(equation.latex,
                                                  equation.colorMap)
                  /\ committed' = None
      ]_vars

\* C14's case: a term was given new content and a color, and the changes
\* were applied: the host holds the changed markup and colorMap.
C14_Witness ==
    /\ lastOp = "save"
    /\ editingEquation = NoEquation
    /\ committed = << [latex |-> latex, colorMap |-> colorMap] >>
    /\ <<"a">> \in DOMAIN colorMap
    /\ latex = Flatten(<< Txt(<<"x", " ", "+", " ">>), Ann(<<"a">>, <<"w">>),
                          Txt(<<" ", "=", " ">>), Ann(<<"b">>, <<"z">>) >>)

\* C15: the render-preview effect never changes Markup, ColorMap or the
\* term list; when the renderer throws only the error message (and the
\* preview element) change, and a render that succeeds clears the error.
C15_RenderErrorKeepsSnapshot ==
    [][ \A fails \in BOOLEAN :
          RenderPreviewEffect(fails) =>
            /\ UNCHANGED <<latex, colorMap, terms>>
            /\ rendered' = "threw" =>
                  /\ error' = ERROR_MESSAGE
                  /\ UNCHANGED <<activeTab, textareaRef, editingEquation,
                                 crashed, committed>>
            /\ rendered' = "ok" => error' = Null
      ]_vars

\* C15's case: the renderer threw on the markup just typed, and the
\* snapshot is the one the edit made.
C15_Witness ==
    /\ rendered = "threw"
    /\ error = ERROR_MESSAGE
    /\ lastOp = "edit"
    /\ Len(terms) = 2
    /\ terms = parseTermsFromLatex(latex, colorMap)

\* C16: every invocation of AddTerm takes effect: the markup gets the new
\* annotation, the colorMap the new name, the term list one more Term.
C16_AddTermTakesEffect ==
    [][ (handleAddTerm /\ lastOp # "add") =>
          \E start \in 0..Len(latex) : \E end \in start..Len(latex) :
            /\ latex' = AddTermLatex(latex, start, end,
                                     NewTermName(Len(terms)))
            /\ colorMap' = WithEntry(colorMap, NewTermName(Len(terms)),
                    COLOR_PRESETS[(Len(terms) % Len(COLOR_PRESETS)) + 1])
            /\ terms' = Append(terms,
                  [name |-> NewTermName(Len(terms)),
                   content |-> SelectedText(latex, start, end),
                   color |-> COLOR_PRESETS[(Len(terms) % Len(COLOR_PRESETS)) + 1]])
      ]_vars

C18_PreviewFresh ==
    (Ready /\ previewRef = "node" /\ error = Null) =>
        preview = processedLatex(latex, colorMap)

====
